---- MODULE Spec2Model ----
(***************************************************************************)
(* A model of the ledger core of src/shyam_Bank.py: class BankDB, the      *)
(* SQLite-backed store of accounts and transactions behind the Tk GUI.     *)
(*                                                                         *)
(* Amounts and balances are Python floats stored in REAL columns.  They    *)
(* are modelled as a binary floating-point format with a MantissaBits-bit  *)
(* significand (IEEE double has 53) whose unit in the last place is never  *)
(* below 1: every value is an integer, every value below 2^MantissaBits    *)
(* is exact, and a sum or difference is rounded to the nearest             *)
(* representable value, ties to even, as the hardware does.  Inputs are    *)
(* finite numbers (no inf, no nan).                                        *)
(*                                                                         *)
(* Text (names, notes) is a sequence of one-character strings, so that     *)
(* str.strip() can be computed.  A nullable column holds {} for NULL and   *)
(* {v} for the value v.                                                    *)
(*                                                                         *)
(* A timestamp is the second datetime.now() shows when _add_tx reads it.   *)
(* The created_at column of accounts is written once and never read back   *)
(* by the ledger operations; it is left out.                               *)
(***************************************************************************)
EXTENDS Integers, Sequences, FiniteSets, TLC

\* ------------------------------------------------------------------ bounds
MantissaBits == 8
MaxAccounts == 2
MaxTx == 4
MaxFaults == 1
MaxClock == 2
MaxCalls == 6
MaxIds == 3

\* ------------------------------------------------------------ float model
RECURSIVE Pow2(_)
Pow2(n) == IF n <= 0 THEN 1 ELSE 2 * Pow2(n - 1)

RECURSIVE BitLen(_)
BitLen(x) == IF x <= 0 THEN 0 ELSE 1 + BitLen(x \div 2)

\* Round a non-negative integer to MantissaBits significant bits, ties to even.
RoundNat(x) ==
    IF x < Pow2(MantissaBits) THEN x
    ELSE LET ulp  == Pow2(BitLen(x) - MantissaBits)
             q    == x \div ulp
             r    == x % ulp
         IN  IF 2 * r < ulp THEN q * ulp
             ELSE IF 2 * r > ulp THEN (q + 1) * ulp
             ELSE IF q % 2 = 0 THEN q * ulp ELSE (q + 1) * ulp

Round(x) == IF x >= 0 THEN RoundNat(x) ELSE 0 - RoundNat(0 - x)

\* Python's float + and -.
FloatAdd(a, b) == Round(a + b)
FloatSub(a, b) == Round(a - b)

\* --------------------------------------------------------------- text model
IsSpace(c) == c = " "

RECURSIVE LStrip(_)
LStrip(s) == IF s # <<>> /\ IsSpace(Head(s)) THEN LStrip(Tail(s)) ELSE s

RECURSIVE RStrip(_)
RStrip(s) ==
    IF s # <<>> /\ IsSpace(s[Len(s)]) THEN RStrip(SubSeq(s, 1, Len(s) - 1)) ELSE s

\* str.strip()
Strip(s) == RStrip(LStrip(s))

\* ------------------------------------------------------------------ inputs
\* The largest amount is the first float whose successor is 2 away.
BigAmount == Pow2(MantissaBits)
Amounts == {-1, 0, 1, BigAmount}
Names == {<<>>, <<" ">>, <<" ", "a">>}
\* note: str = ""
DefaultNote == <<>>
Notes == {DefaultNote, <<" ", "n">>}
Ids == 1..MaxAccounts
\* limit: int = 50
DefaultLimit == 50
Limits == {-1, 0, 1, 2, DefaultLimit}

InitialDepositNote == <<"I", "n", "i", "t", "i", "a", "l", " ", "d", "e", "p", "o", "s", "i", "t">>

\* ------------------------------------------------------------------- state
VARIABLES
    accounts,         \* table accounts as the connection sees it: id -> row
    transactions,     \* table transactions as the connection sees it, in id order
    sqlite_sequence,  \* the AUTOINCREMENT counters of the two tables
    committed,        \* what the database file holds: the last commit
    faults,           \* how many statements the storage has failed so far
    clock,            \* datetime.now(), in whole seconds
    db0,              \* the database the program was started on
    pc,               \* where each of two programs sharing the file is in its call
    local,            \* the arguments and local variables of that call
    scenario,         \* a scripted caller: the calls it made, the ids it was given
    issued,           \* the ids create_account has returned (return acc_id) so far
    result            \* the last call: its name, the ValueError it raised, the
                      \* balances it fetched (acc[2]) and the value it returned

vars == <<accounts, transactions, sqlite_sequence, committed, faults, clock, db0, pc, local,
          scenario, issued, result>>

View == [accounts |-> accounts, transactions |-> transactions,
         sqlite_sequence |-> sqlite_sequence]

Procs == {"p", "q"}

NoScenario == [done |-> <<>>, alice |-> 0, bob |-> 0]

NoCall == [op |-> "", account_id |-> 0, to_id |-> 0, amount |-> 0, note |-> <<>>,
           acc_from |-> {}, acc_to |-> {}, err |-> "", ret |-> <<>>]

\* create_schema on a new file: two empty tables.
EmptyDb == [accounts |-> <<>>, transactions |-> <<>>,
            sqlite_sequence |-> [accounts |-> 0, transactions |-> 0]]

Init ==
    /\ accounts = EmptyDb.accounts
    /\ transactions = EmptyDb.transactions
    /\ sqlite_sequence = EmptyDb.sqlite_sequence
    /\ committed = EmptyDb
    /\ faults = 0
    /\ clock = 0
    /\ db0 = EmptyDb
    /\ pc = [p \in Procs |-> "idle"]
    /\ local = [p \in Procs |-> NoCall]
    /\ scenario = NoScenario
    /\ issued = {}
    /\ result = [op |-> "__init__", err |-> "", acc |-> <<>>, ret |-> <<>>]

\* ------------------------------------------------------------ store access
\* The SQL statements BankDB issues, as values, so that a call is the list of
\* its writes: run whole and committed, or cut short by a failing statement.
Stmt(kind, id, name, amount, tx_type, note, related) ==
    [kind |-> kind, id |-> id, name |-> name, amount |-> amount,
     tx_type |-> tx_type, note |-> note, related |-> related, ts |-> 0]

\* INSERT INTO accounts (name, balance, created_at) VALUES (?,?,?)
InsertAccountStmt(name, balance) == Stmt("INSERT accounts", 0, name, balance, "", {}, {})

\* UPDATE accounts SET balance = ? WHERE id = ?
UpdateBalanceStmt(account_id, balance) ==
    Stmt("UPDATE accounts", account_id, <<>>, balance, "", {}, {})

\* DELETE FROM accounts WHERE id = ?
DeleteAccountStmt(account_id) == Stmt("DELETE accounts", account_id, <<>>, 0, "", {}, {})

\* note.strip() if note else None
StoredNote(note) == IF note # <<>> THEN {Strip(note)} ELSE {}

\* _add_tx: INSERT INTO transactions (...); related is {} (NULL) or {id}.
_add_tx(account_id, tx_type, amount, note, related) ==
    Stmt("INSERT transactions", account_id, <<>>, amount, tx_type, StoredNote(note), related)

\* Mutant: INTEGER PRIMARY KEY without AUTOINCREMENT, one more than the
\* largest id the table holds now.
NextId_MaxRowid(db, table) ==
    LET ids == IF table = "accounts" THEN DOMAIN db.accounts
               ELSE {db.transactions[i].id : i \in DOMAIN db.transactions}
    IN  IF ids = {} THEN 1 ELSE (CHOOSE m \in ids : \A i \in ids : i <= m) + 1

\* AUTOINCREMENT: one more than the largest id the table ever held.
NextId(db, table) == db.sqlite_sequence[table] + 1

\* Mutant: deleting an account empties the whole log.
CascadeDelete_All(txs, account_id) == <<>>

\* Mutant: the cascade also follows related_account_id.
CascadeDelete_AlsoRelated(txs, account_id) ==
    SelectSeq(txs, LAMBDA t : t.account_id # account_id
                              /\ t.related_account_id # {account_id})

\* FOREIGN KEY (account_id) REFERENCES accounts(id) ON DELETE CASCADE
CascadeDelete(txs, account_id) ==
    SelectSeq(txs, LAMBDA t : t.account_id # account_id)

\* One statement run on the connection's view of the database.
Exec(db, st) ==
    CASE st.kind = "INSERT accounts" ->
           LET id == NextId(db, "accounts")
           IN  [db EXCEPT
                  !.accounts = [i \in DOMAIN db.accounts \cup {id} |->
                                  IF i = id
                                  THEN [id |-> id, name |-> st.name, balance |-> st.amount]
                                  ELSE db.accounts[i]],
                  !.sqlite_sequence.accounts = id]
      [] st.kind = "UPDATE accounts" ->
           IF st.id \in DOMAIN db.accounts
           THEN [db EXCEPT !.accounts[st.id].balance = st.amount]
           ELSE db
      [] st.kind = "DELETE accounts" ->
           [db EXCEPT
              !.accounts = [i \in DOMAIN db.accounts \ {st.id} |-> db.accounts[i]],
              !.transactions = CascadeDelete(db.transactions, st.id)]
      [] st.kind = "INSERT transactions" ->
           LET id == NextId(db, "transactions")
           IN  [db EXCEPT
                  !.transactions = Append(db.transactions,
                      [id |-> id, account_id |-> st.id, type |-> st.tx_type,
                       amount |-> st.amount, timestamp |-> st.ts,
                       note |-> st.note, related_account_id |-> st.related]),
                  !.sqlite_sequence.transactions = id]

RECURSIVE ExecAll(_, _)
ExecAll(db, stmts) ==
    IF stmts = <<>> THEN db ELSE ExecAll(Exec(db, Head(stmts)), Tail(stmts))

\* get_account: fetchone() gives the row ({row}), or None ({}).
get_account(db, account_id) ==
    IF account_id \in DOMAIN db.accounts THEN {db.accounts[account_id]} ELSE {}

\* acc[2] of a fetched row
Balance(acc) == (CHOOSE a \in acc : TRUE).balance

\* ORDER BY id DESC: the row of the largest id first.  (The mutant gives the
\* rows in ascending order.)
RECURSIVE OrderByIdAsc(_)
OrderByIdAsc(rows) ==
    IF rows = <<>> THEN <<>>
    ELSE LET m == CHOOSE i \in DOMAIN rows : \A j \in DOMAIN rows : rows[i].id <= rows[j].id
         IN  <<rows[m]>> \o OrderByIdAsc(SubSeq(rows, 1, m - 1) \o SubSeq(rows, m + 1, Len(rows)))

RECURSIVE OrderByIdDesc(_)
OrderByIdDesc(rows) ==
    IF rows = <<>> THEN <<>>
    ELSE LET m == CHOOSE i \in DOMAIN rows : \A j \in DOMAIN rows : rows[i].id >= rows[j].id
         IN  <<rows[m]>> \o OrderByIdDesc(SubSeq(rows, 1, m - 1) \o SubSeq(rows, m + 1, Len(rows)))

\* LIMIT ?: SQLite takes a negative limit as no limit, and 0 as no rows.
Limit(rows, limit) ==
    IF limit < 0 \/ limit >= Len(rows) THEN rows ELSE SubSeq(rows, 1, limit)

\* ------------------------------------------------------------ the handlers
\* Each handler is a plan: the exception it raises ("" for none), the balances
\* it fetched, the statements it issues before that point and the value it
\* returns.
Plan(err, acc, writes, ret) == [err |-> err, acc |-> acc, writes |-> writes, ret |-> ret]

Reject(msg) == Plan(msg, <<>>, <<>>, <<>>)

NameIsEmpty(name) == Strip(name) = <<>>

NegativeInitial(initial_balance) == initial_balance < 0

\* Mutant: the initial deposit is logged even when it is 0.
HasInitialDeposit_Always(initial_balance) == TRUE

HasInitialDeposit(initial_balance) == initial_balance > 0

\* Mutant: the row is inserted before the initial balance is validated.
create_account_InsertFirst(db, name, initial_balance) ==
    LET acc_id == NextId(db, "accounts")
    IN  IF NameIsEmpty(name) THEN Reject("Account name cannot be empty.")
        ELSE IF NegativeInitial(initial_balance)
        THEN Plan("Initial balance cannot be negative.", <<>>,
                  <<InsertAccountStmt(Strip(name), initial_balance)>>, <<>>)
        ELSE Plan("", <<>>,
                  <<InsertAccountStmt(Strip(name), initial_balance)>>
                  \o (IF HasInitialDeposit(initial_balance)
                      THEN <<_add_tx(acc_id, "DEPOSIT", initial_balance,
                                     InitialDepositNote, {})>>
                      ELSE <<>>),
                  <<acc_id>>)

create_account(db, name, initial_balance) ==
    LET acc_id == NextId(db, "accounts")
    IN  IF NameIsEmpty(name) THEN Reject("Account name cannot be empty.")
        ELSE IF NegativeInitial(initial_balance)
        THEN Reject("Initial balance cannot be negative.")
        ELSE Plan("", <<>>,
                  <<InsertAccountStmt(Strip(name), initial_balance)>>
                  \o (IF HasInitialDeposit(initial_balance)
                      THEN <<_add_tx(acc_id, "DEPOSIT", initial_balance,
                                     InitialDepositNote, {})>>
                      ELSE <<>>),
                  <<acc_id>>)

\* Mutant: the balance check is missing.
HasMoney_Never(acc) == FALSE

HasMoney(acc) == Balance(acc) # 0

delete_account(acc, account_id) ==
    IF acc = {} THEN Reject("Account not found.")
    ELSE IF HasMoney(acc)
    THEN Reject("Cannot delete account with non-zero balance. Please withdraw/transfer first.")
    ELSE Plan("", <<Balance(acc)>>, <<DeleteAccountStmt(account_id)>>, <<>>)

NotPositive(amount) == amount <= 0

\* The checks made before get_account is called.
deposit_args(amount) ==
    IF NotPositive(amount) THEN "Deposit amount must be positive." ELSE ""

\* Mutant: the record carries the new balance instead of the amount.
deposit_LogsBalance(acc, account_id, amount, note) ==
    IF deposit_args(amount) # "" THEN Reject(deposit_args(amount))
    ELSE IF acc = {} THEN Reject("Account not found.")
    ELSE LET new_balance == FloatAdd(Balance(acc), amount)
         IN  Plan("", <<Balance(acc)>>,
                  <<UpdateBalanceStmt(account_id, new_balance),
                    _add_tx(account_id, "DEPOSIT", new_balance, note, {})>>,
                  <<new_balance>>)

deposit(acc, account_id, amount, note) ==
    IF deposit_args(amount) # "" THEN Reject(deposit_args(amount))
    ELSE IF acc = {} THEN Reject("Account not found.")
    ELSE LET new_balance == FloatAdd(Balance(acc), amount)
         IN  Plan("", <<Balance(acc)>>,
                  <<UpdateBalanceStmt(account_id, new_balance),
                    _add_tx(account_id, "DEPOSIT", amount, note, {})>>,
                  <<new_balance>>)

\* Mutants of the funds check.
Insufficient_Never(balance, amount) == FALSE

Insufficient_OffByOne(balance, amount) == balance + 1 < amount

Insufficient(balance, amount) == balance < amount

withdraw_args(amount) ==
    IF NotPositive(amount) THEN "Withdrawal amount must be positive." ELSE ""

\* Mutant: the withdrawal is logged and returned, the balance is not written.
withdraw_KeepsBalance(acc, account_id, amount, note) ==
    IF withdraw_args(amount) # "" THEN Reject(withdraw_args(amount))
    ELSE IF acc = {} THEN Reject("Account not found.")
    ELSE IF Insufficient(Balance(acc), amount) THEN Reject("Insufficient balance.")
    ELSE LET new_balance == FloatSub(Balance(acc), amount)
         IN  Plan("", <<Balance(acc)>>,
                  <<_add_tx(account_id, "WITHDRAW", amount, note, {})>>,
                  <<new_balance>>)

withdraw(acc, account_id, amount, note) ==
    IF withdraw_args(amount) # "" THEN Reject(withdraw_args(amount))
    ELSE IF acc = {} THEN Reject("Account not found.")
    ELSE IF Insufficient(Balance(acc), amount) THEN Reject("Insufficient balance.")
    ELSE LET new_balance == FloatSub(Balance(acc), amount)
         IN  Plan("", <<Balance(acc)>>,
                  <<UpdateBalanceStmt(account_id, new_balance),
                    _add_tx(account_id, "WITHDRAW", amount, note, {})>>,
                  <<new_balance>>)

\* list_transactions: no check of its arguments, one SELECT, cur.fetchall().
\* The rows are given whole (the SELECT leaves the account_id column out).
list_transactions(db, account_id, limit) ==
    Plan("", <<>>, <<>>,
         Limit(OrderByIdDesc(SelectSeq(db.transactions,
                                       LAMBDA t : t.account_id = account_id)),
               limit))

SameAccount(from_id, to_id) == from_id = to_id

transfer_args(from_id, to_id, amount) ==
    IF SameAccount(from_id, to_id) THEN "Cannot transfer to the same account."
    ELSE IF NotPositive(amount) THEN "Transfer amount must be positive."
    ELSE ""

\* Mutant: the incoming leg is logged on the source account.
TransferWrites_InOnSource(from_id, to_id, new_from_balance, new_to_balance, amount, note) ==
    <<UpdateBalanceStmt(from_id, new_from_balance),
      UpdateBalanceStmt(to_id, new_to_balance),
      _add_tx(from_id, "TRANSFER_OUT", amount, note, {to_id}),
      _add_tx(from_id, "TRANSFER_IN", amount, note, {from_id})>>

\* Mutant: the incoming leg points at the destination itself.
TransferWrites_WrongRelated(from_id, to_id, new_from_balance, new_to_balance, amount, note) ==
    <<UpdateBalanceStmt(from_id, new_from_balance),
      UpdateBalanceStmt(to_id, new_to_balance),
      _add_tx(from_id, "TRANSFER_OUT", amount, note, {to_id}),
      _add_tx(to_id, "TRANSFER_IN", amount, note, {to_id})>>

TransferWrites(from_id, to_id, new_from_balance, new_to_balance, amount, note) ==
    <<UpdateBalanceStmt(from_id, new_from_balance),
      UpdateBalanceStmt(to_id, new_to_balance),
      _add_tx(from_id, "TRANSFER_OUT", amount, note, {to_id}),
      _add_tx(to_id, "TRANSFER_IN", amount, note, {from_id})>>

transfer(acc_from, acc_to, from_id, to_id, amount, note) ==
    IF transfer_args(from_id, to_id, amount) # ""
    THEN Reject(transfer_args(from_id, to_id, amount))
    ELSE IF acc_from = {} \/ acc_to = {}
    THEN Reject("Source or destination account not found.")
    ELSE IF Insufficient(Balance(acc_from), amount)
    THEN Reject("Insufficient balance in source account.")
    ELSE LET new_from_balance == FloatSub(Balance(acc_from), amount)
             new_to_balance == FloatAdd(Balance(acc_to), amount)
         IN  Plan("", <<Balance(acc_from), Balance(acc_to)>>,
                  TransferWrites(from_id, to_id, new_from_balance, new_to_balance,
                                 amount, note),
                  <<new_from_balance, new_to_balance>>)

\* ------------------------------------------------- one caller, whole calls
\* ts = datetime.now().isoformat(timespec="seconds"): each statement is
\* issued with the reading of the clock it makes; readings[i] is the i-th.
Stamped(writes, readings) ==
    [i \in DOMAIN writes |-> [writes[i] EXCEPT !.ts = readings[i]]]

\* Every statement of the call reads the same second.
SameSecond(writes) == [i \in DOMAIN writes |-> clock]

\* The connection's view after the statements of a call.
After(db, plan) == ExecAll(db, Stamped(plan.writes, SameSecond(plan.writes)))

\* What create_account hands its caller: return acc_id.
Returned(res) ==
    IF res.op = "create_account" /\ res.err = "" THEN {res.ret[1]} ELSE {}

\* A call runs to its end.  The statements it issued before it returned or
\* raised stay in the connection's open transaction; self.conn.commit() is
\* reached only by a call that does not raise.
Outcome(op, plan) ==
    [view |-> After(View, plan),
     committed |-> IF plan.err = "" THEN After(View, plan) ELSE committed,
     result |-> [op |-> op, err |-> plan.err, acc |-> plan.acc, ret |-> plan.ret]]

Call(op, plan) ==
    LET out == Outcome(op, plan)
    IN  /\ result' = out.result
        /\ accounts' = out.view.accounts
        /\ transactions' = out.view.transactions
        /\ sqlite_sequence' = out.view.sqlite_sequence
        /\ committed' = out.committed
        /\ issued' = issued \cup Returned(out.result)
        /\ UNCHANGED <<faults, clock, db0, pc, local, scenario>>

\* The ids the bounded tables can still hand out.
RoomFor(plan) ==
    /\ \A i \in 1..Len(plan.writes) :
          plan.writes[i].kind = "INSERT accounts" => sqlite_sequence.accounts < MaxAccounts
    /\ sqlite_sequence.transactions
         + Cardinality({i \in 1..Len(plan.writes) :
                           plan.writes[i].kind = "INSERT transactions"}) <= MaxTx

CreateAccount ==
    \E name \in Names, initial_balance \in Amounts :
        LET plan == create_account(View, name, initial_balance)
        IN  /\ RoomFor(plan)
            /\ Call("create_account", plan)

DeleteAccount ==
    \E account_id \in Ids :
        LET plan == delete_account(get_account(View, account_id), account_id)
        IN  Call("delete_account", plan)

Deposit ==
    \E account_id \in Ids, amount \in Amounts, note \in {DefaultNote} :
        LET plan == deposit(get_account(View, account_id), account_id, amount, note)
        IN  /\ RoomFor(plan)
            /\ Call("deposit", plan)

Withdraw ==
    \E account_id \in Ids, amount \in Amounts, note \in {DefaultNote} :
        LET plan == withdraw(get_account(View, account_id), account_id, amount, note)
        IN  /\ RoomFor(plan)
            /\ Call("withdraw", plan)

Transfer ==
    \E from_id \in Ids, to_id \in Ids, amount \in Amounts, note \in Notes :
        LET plan == transfer(get_account(View, from_id), get_account(View, to_id),
                             from_id, to_id, amount, note)
        IN  /\ RoomFor(plan)
            /\ Call("transfer", plan)

Next == CreateAccount \/ DeleteAccount \/ Deposit \/ Withdraw \/ Transfer

Spec == Init /\ [][Next]_vars

\* ------------------------------------------- a statement that fails midway
\* cur.execute raising sqlite3.OperationalError (disk full, I/O error,
\* "database is locked") is not a ValueError: no handler catches it, no
\* handler rolls back, and Tk's report_callback_exception lets the program run
\* on with the connection as it is.
StorageError == "sqlite3.OperationalError"

\* The call whose statement number k + 1 raises: the first k statements ran.
FailAt(plan, k) == Plan(StorageError, plan.acc, SubSeq(plan.writes, 1, k), <<>>)

TransferFails ==
    \E from_id \in Ids, to_id \in Ids, amount \in Amounts, note \in Notes :
        LET plan == transfer(get_account(View, from_id), get_account(View, to_id),
                             from_id, to_id, amount, note)
        IN  /\ plan.err = ""
            /\ \E k \in 0..(Len(plan.writes) - 1) :
                  /\ RoomFor(FailAt(plan, k))
                  /\ faults < MaxFaults
                  /\ LET out == Outcome("transfer", FailAt(plan, k))
                     IN  /\ result' = out.result
                         /\ accounts' = out.view.accounts
                         /\ transactions' = out.view.transactions
                         /\ sqlite_sequence' = out.view.sqlite_sequence
                         /\ committed' = out.committed
                         /\ faults' = faults + 1
                         /\ UNCHANGED <<clock, db0, pc, local, scenario, issued>>

\* create_account whose INSERT INTO accounts or whose _add_tx raises.
CreateAccountFails ==
    \E name \in Names, initial_balance \in Amounts :
        LET plan == create_account(View, name, initial_balance)
        IN  /\ plan.err = ""
            /\ \E k \in 0..(Len(plan.writes) - 1) :
                  /\ RoomFor(FailAt(plan, k))
                  /\ faults < MaxFaults
                  /\ LET out == Outcome("create_account", FailAt(plan, k))
                     IN  /\ result' = out.result
                         /\ accounts' = out.view.accounts
                         /\ transactions' = out.view.transactions
                         /\ sqlite_sequence' = out.view.sqlite_sequence
                         /\ committed' = out.committed
                         /\ faults' = faults + 1
                         /\ UNCHANGED <<clock, db0, pc, local, scenario, issued>>

\* The program is closed and started again: the open transaction is lost and
\* BankDB.__init__ connects to what the file holds.
Reopen ==
    /\ accounts' = committed.accounts
    /\ transactions' = committed.transactions
    /\ sqlite_sequence' = committed.sqlite_sequence
    /\ result' = [op |-> "__init__", err |-> "", acc |-> <<>>, ret |-> <<>>]
    /\ UNCHANGED <<committed, faults, clock, db0, pc, local, scenario, issued>>

NextFail == CreateAccount \/ Transfer \/ TransferFails \/ CreateAccountFails \/ Reopen

SpecFail == Init /\ [][NextFail]_vars

\* ------------------------------------------------------ the clock moves
\* datetime.now() is the wall clock: it moves between calls, and it can move
\* between the statements of one call.  _add_tx reads it anew each time.
Tick ==
    /\ clock < MaxClock
    /\ clock' = clock + 1
    /\ UNCHANGED <<accounts, transactions, sqlite_sequence, committed, faults, db0, pc, local,
                   scenario, issued, result>>

\* The statements up to number k read this second, the later ones the next.
AcrossSeconds(writes, k) == [i \in DOMAIN writes |-> IF i <= k THEN clock ELSE clock + 1]

\* A transfer during which the second changes, after its statement number k.
TransferAcrossSeconds ==
    \E from_id \in Ids, to_id \in Ids, amount \in Amounts, note \in Notes :
        LET plan == transfer(get_account(View, from_id), get_account(View, to_id),
                             from_id, to_id, amount, note)
        IN  /\ plan.err = ""
            /\ RoomFor(plan)
            /\ clock < MaxClock
            /\ \E k \in 1..(Len(plan.writes) - 1) :
                  LET db == ExecAll(View, Stamped(plan.writes, AcrossSeconds(plan.writes, k)))
                  IN  /\ accounts' = db.accounts
                      /\ transactions' = db.transactions
                      /\ sqlite_sequence' = db.sqlite_sequence
                      /\ committed' = db
                      /\ result' = [op |-> "transfer", err |-> "", acc |-> plan.acc,
                                    ret |-> plan.ret]
                      /\ clock' = clock + 1
                      /\ UNCHANGED <<faults, db0, pc, local, scenario, issued>>

NextClock == CreateAccount \/ Transfer \/ Tick \/ TransferAcrossSeconds

SpecClock == Init /\ [][NextClock]_vars

\* -------------------------------------------------------- a scripted caller
\* A caller that makes the six calls of a session, in any order and as often
\* as it likes, MaxCalls calls in all.  It keeps the ids create_account gave it
\* for "Alice" and "Bob" and names an account only once it has its id.
Alice == <<"A", "l", "i", "c", "e">>
Bob == <<"B", "o", "b">>
Salary == <<"s", "a", "l", "a", "r", "y">>

\* Call number n of the session made: the call as in Call, and the caller
\* notes the call and, for a create_account, the id it returned.
ScenarioCall(n, op, plan) ==
    LET out == Outcome(op, plan)
        made == out.result.err = "" /\ op = "create_account"
    IN  /\ Len(scenario.done) < MaxCalls
        /\ result' = out.result
        /\ accounts' = out.view.accounts
        /\ transactions' = out.view.transactions
        /\ sqlite_sequence' = out.view.sqlite_sequence
        /\ committed' = out.committed
        /\ scenario' = [done |-> Append(scenario.done, n),
                        alice |-> IF made /\ n = 1 THEN plan.ret[1] ELSE scenario.alice,
                        bob |-> IF made /\ n = 4 THEN plan.ret[1] ELSE scenario.bob]
        /\ issued' = issued \cup Returned(out.result)
        /\ UNCHANGED <<faults, clock, db0, pc, local>>

CreateAlice == ScenarioCall(1, "create_account", create_account(View, Alice, 100))

DepositSalary ==
    /\ scenario.alice # 0
    /\ ScenarioCall(2, "deposit",
                    deposit(get_account(View, scenario.alice), scenario.alice, 50, Salary))

WithdrawThirty ==
    /\ scenario.alice # 0
    /\ ScenarioCall(3, "withdraw",
                    withdraw(get_account(View, scenario.alice), scenario.alice, 30,
                             DefaultNote))

CreateBob == ScenarioCall(4, "create_account", create_account(View, Bob, 0))

TransferHundred ==
    /\ scenario.alice # 0 /\ scenario.bob # 0
    /\ ScenarioCall(5, "transfer",
                    transfer(get_account(View, scenario.alice),
                             get_account(View, scenario.bob),
                             scenario.alice, scenario.bob, 100, DefaultNote))

DeleteAlice ==
    /\ scenario.alice # 0
    /\ ScenarioCall(6, "delete_account",
                    delete_account(get_account(View, scenario.alice), scenario.alice))

NextScenario ==
    \/ CreateAlice \/ DepositSalary \/ WithdrawThirty
    \/ CreateBob \/ TransferHundred \/ DeleteAlice

SpecScenario == Init /\ [][NextScenario]_vars

\* ------------------------------------------ two programs on one bank.db
\* ------------------------------------------------ accounts come and go
\* A ledger that lives long enough to hand out MaxIds ids: accounts are
\* opened, emptied by a transfer and closed, and others opened after them.
LongIds == 1..MaxIds

RoomForIds(plan) ==
    /\ \A i \in 1..Len(plan.writes) :
          plan.writes[i].kind = "INSERT accounts" => sqlite_sequence.accounts < MaxIds
    /\ sqlite_sequence.transactions
         + Cardinality({i \in 1..Len(plan.writes) :
                           plan.writes[i].kind = "INSERT transactions"}) <= MaxTx

OpenAccount ==
    \E name \in Names, initial_balance \in Amounts :
        LET plan == create_account(View, name, initial_balance)
        IN  /\ RoomForIds(plan)
            /\ Call("create_account", plan)

CloseAccount ==
    \E account_id \in LongIds :
        Call("delete_account", delete_account(get_account(View, account_id), account_id))

MoveMoney ==
    \E from_id \in LongIds, to_id \in LongIds, amount \in Amounts :
        LET plan == transfer(get_account(View, from_id), get_account(View, to_id),
                             from_id, to_id, amount, DefaultNote)
        IN  /\ RoomForIds(plan)
            /\ Call("transfer", plan)

NextIds == OpenAccount \/ CloseAccount \/ MoveMoney

SpecIds == Init /\ [][NextIds]_vars

\* DB_FILE is a relative path: two running programs (two BankApp windows)
\* share the file, each through a connection of its own.  get_account is a
\* SELECT outside any transaction and reads what is committed; the first
\* UPDATE of a call opens a transaction that holds SQLite's write lock until
\* commit(), so the writes of one call are one step.  Each program makes one
\* call.  The file they start on holds two accounts made by create_account.
TwoAccounts(x, y) ==
    LET db1 == After(EmptyDb, create_account(EmptyDb, <<"a">>, x))
    IN  After(db1, create_account(db1, <<"a">>, y))

InitConc ==
    \E x \in Amounts, y \in Amounts :
        /\ x >= 0 /\ y >= 0
        /\ clock = 0
        /\ db0 = TwoAccounts(x, y)
        /\ accounts = db0.accounts
        /\ transactions = db0.transactions
        /\ sqlite_sequence = db0.sqlite_sequence
        /\ committed = db0
        /\ faults = 0
        /\ pc = [p \in Procs |-> "idle"]
        /\ local = [p \in Procs |-> NoCall]
        /\ scenario = NoScenario
        /\ issued = DOMAIN db0.accounts
        /\ result = [op |-> "__init__", err |-> "", acc |-> <<>>, ret |-> <<>>]

ArgsError(c) ==
    CASE c.op = "deposit" -> deposit_args(c.amount)
      [] c.op = "withdraw" -> withdraw_args(c.amount)
      [] c.op = "transfer" -> transfer_args(c.account_id, c.to_id, c.amount)

\* The rest of the handler, on the rows this call fetched.
PlanOf(c) ==
    CASE c.op = "deposit" -> deposit(c.acc_from, c.account_id, c.amount, c.note)
      [] c.op = "withdraw" -> withdraw(c.acc_from, c.account_id, c.amount, c.note)
      [] c.op = "transfer" -> transfer(c.acc_from, c.acc_to, c.account_id, c.to_id,
                                       c.amount, c.note)

\* A handler is entered and checks its arguments.
Begin(p) ==
    /\ pc[p] = "idle"
    /\ \E op \in {"deposit", "withdraw", "transfer"}, account_id \in Ids,
          to_id \in Ids, amount \in Amounts :
          LET c == [NoCall EXCEPT !.op = op, !.account_id = account_id,
                                  !.to_id = IF op = "transfer" THEN to_id ELSE 0,
                                  !.amount = amount, !.note = DefaultNote]
          IN  /\ op # "transfer" => to_id = 1
              /\ local' = [local EXCEPT ![p] = [c EXCEPT !.err = ArgsError(c)]]
              /\ pc' = [pc EXCEPT ![p] = IF ArgsError(c) # "" THEN "done" ELSE "read_from"]
    /\ UNCHANGED <<accounts, transactions, sqlite_sequence, committed, faults, clock, db0, scenario,
                   issued, result>>

\* acc = self.get_account(account_id); acc_from = self.get_account(from_id)
ReadFrom(p) ==
    /\ pc[p] = "read_from"
    /\ local' = [local EXCEPT ![p].acc_from = get_account(View, local[p].account_id)]
    /\ pc' = [pc EXCEPT ![p] = IF local[p].op = "transfer" THEN "read_to" ELSE "write"]
    /\ UNCHANGED <<accounts, transactions, sqlite_sequence, committed, faults, clock, db0, scenario,
                   issued, result>>

\* acc_to = self.get_account(to_id)
ReadTo(p) ==
    /\ pc[p] = "read_to"
    /\ local' = [local EXCEPT ![p].acc_to = get_account(View, local[p].to_id)]
    /\ pc' = [pc EXCEPT ![p] = "write"]
    /\ UNCHANGED <<accounts, transactions, sqlite_sequence, committed, faults, clock, db0, scenario,
                   issued, result>>

\* The checks on the fetched rows, then the UPDATEs, the INSERTs and commit().
Write(p) ==
    /\ pc[p] = "write"
    /\ LET plan == PlanOf(local[p])
           db == After(View, plan)
       IN  /\ accounts' = db.accounts
           /\ transactions' = db.transactions
           /\ sqlite_sequence' = db.sqlite_sequence
           /\ committed' = db
           /\ local' = [local EXCEPT ![p].err = plan.err, ![p].ret = plan.ret]
    /\ pc' = [pc EXCEPT ![p] = "done"]
    /\ UNCHANGED <<faults, clock, db0, scenario, issued, result>>

NextConc == \E p \in Procs : Begin(p) \/ ReadFrom(p) \/ ReadTo(p) \/ Write(p)

SpecConc == InitConc /\ [][NextConc]_vars

\* ===================================================================
\* Properties
\* ===================================================================
ExistingIds == DOMAIN accounts

\* The records of one account, in id order.
TxOf(txs, account_id) == SelectSeq(txs, LAMBDA t : t.account_id = account_id)

Credits == {"DEPOSIT", "TRANSFER_IN"}
Debits == {"WITHDRAW", "TRANSFER_OUT"}

RECURSIVE SumCredits(_)
SumCredits(recs) ==
    IF recs = <<>> THEN 0
    ELSE (IF Head(recs).type \in Credits THEN Head(recs).amount ELSE 0)
         + SumCredits(Tail(recs))

RECURSIVE SumDebits(_)
SumDebits(recs) ==
    IF recs = <<>> THEN 0
    ELSE (IF Head(recs).type \in Debits THEN Head(recs).amount ELSE 0)
         + SumDebits(Tail(recs))

\* What the log of an account adds up to, exactly.
LogSum(txs, account_id) ==
    SumCredits(TxOf(txs, account_id)) - SumDebits(TxOf(txs, account_id))

\* The log of an account replayed from `start`, oldest record first, in the
\* arithmetic of the balances.
RECURSIVE Replay(_, _)
Replay(start, recs) ==
    IF recs = <<>> THEN start
    ELSE Replay(IF Head(recs).type \in Credits
                THEN FloatAdd(start, Head(recs).amount)
                ELSE FloatSub(start, Head(recs).amount),
                Tail(recs))

LedgerUnchanged == UNCHANGED <<accounts, transactions, sqlite_sequence, committed>>

CreateAccountCall(name, initial_balance) ==
    Call("create_account", create_account(View, name, initial_balance))

DeleteAccountCall(account_id) ==
    Call("delete_account", delete_account(get_account(View, account_id), account_id))

DepositCall(account_id, amount, note) ==
    Call("deposit", deposit(get_account(View, account_id), account_id, amount, note))

WithdrawCall(account_id, amount, note) ==
    Call("withdraw", withdraw(get_account(View, account_id), account_id, amount, note))

TransferCall(from_id, to_id, amount, note) ==
    Call("transfer", transfer(get_account(View, from_id), get_account(View, to_id),
                              from_id, to_id, amount, note))

C2_BalanceNonNegative == \A id \in ExistingIds : accounts[id].balance >= 0

\* A withdrawal or transfer has just emptied an account.
C2_Witness ==
    /\ result.op \in {"withdraw", "transfer"}
    /\ result.err = ""
    /\ result.ret[1] = 0
    /\ result.acc[1] > 0

\* The call changes nothing: not a balance, not a log, not a counter, neither in
\* the connection's view nor in the committed database.
NoEffect(out) == out.view = View /\ out.committed = committed

WithdrawPlan(account_id, amount, note) ==
    withdraw(get_account(View, account_id), account_id, amount, note)

TransferPlan(from_id, to_id, amount, note) ==
    transfer(get_account(View, from_id), get_account(View, to_id),
             from_id, to_id, amount, note)

\* C3: in every reachable state, a Withdraw or Transfer of more than the source
\* account holds raises, and leaves every balance and every log (and the
\* committed database) as it was.
C3_RejectionIsAtomic ==
    /\ \A id \in ExistingIds, amount \in Amounts, note \in Notes :
          amount > accounts[id].balance
             => LET out == Outcome("withdraw", WithdrawPlan(id, amount, note))
                IN  out.result.err # "" /\ NoEffect(out)
    /\ \A from_id \in ExistingIds, to_id \in Ids, amount \in Amounts, note \in Notes :
          amount > accounts[from_id].balance
             => LET out == Outcome("transfer", TransferPlan(from_id, to_id, amount, note))
                IN  out.result.err # "" /\ NoEffect(out)

\* A transfer between two existing accounts was refused for lack of funds.
C3_Witness ==
    /\ result.op = "transfer"
    /\ result.err = "Insufficient balance in source account."
    /\ Cardinality(ExistingIds) = 2
    /\ transactions # <<>>

\* The TransferIn records that pair with the TransferOut record t: on the
\* counterparty, pointing back, of the same amount, and written by the same
\* transfer call, that is by the insert that follows t's (the next id).
MatchingIn(txs, t) ==
    {i \in 1..Len(txs) :
        /\ txs[i].type = "TRANSFER_IN"
        /\ {txs[i].account_id} = t.related_account_id
        /\ txs[i].related_account_id = {t.account_id}
        /\ txs[i].amount = t.amount
        /\ txs[i].id = t.id + 1}

TransferOuts(txs) == {i \in 1..Len(txs) : txs[i].type = "TRANSFER_OUT"}

\* C7 as stated: every TransferOut record has exactly one matching TransferIn
\* record, whatever was deleted since.
C7_EveryOutHasItsIn ==
    \A i \in TransferOuts(transactions) :
        Cardinality(MatchingIn(transactions, transactions[i])) = 1

\* C7 amended: every TransferOut record whose counterparty account still exists
\* has exactly one matching TransferIn record.
C7_OutHasItsInWhileCounterpartyExists ==
    \A i \in TransferOuts(transactions) :
        transactions[i].related_account_id \subseteq ExistingIds
           => Cardinality(MatchingIn(transactions, transactions[i])) = 1

\* Two accounts exist and the log holds a transfer between them, both legs.
C7_Witness ==
    /\ Cardinality(ExistingIds) = 2
    /\ \E i \in TransferOuts(transactions) :
          /\ transactions[i].related_account_id \subseteq ExistingIds
          /\ MatchingIn(transactions, transactions[i]) # {}

DeletePlan(account_id) == delete_account(get_account(View, account_id), account_id)

\* C8: in every reachable state, DeleteAccount of an existing account succeeds
\* exactly when its balance is 0, and then the account is gone; with any other
\* balance it raises the non-zero-balance error and the account and all records
\* stay; for an absent id it raises "Account not found." and changes nothing.
C8_DeleteIffZeroBalance ==
    \A id \in Ids :
        LET out == Outcome("delete_account", DeletePlan(id))
        IN  /\ (id \in ExistingIds /\ accounts[id].balance = 0)
               => (out.result.err = "" /\ id \notin DOMAIN out.view.accounts
                   /\ id \notin DOMAIN out.committed.accounts)
            /\ (id \in ExistingIds /\ accounts[id].balance # 0)
               => (out.result.err = "Cannot delete account with non-zero balance. Please withdraw/transfer first."
                   /\ NoEffect(out))
            /\ id \notin ExistingIds
               => (out.result.err = "Account not found." /\ NoEffect(out))

\* A delete was refused because the account holds money; it is still there with
\* its records.
C8_Witness ==
    /\ result.op = "delete_account"
    /\ result.err = "Cannot delete account with non-zero balance. Please withdraw/transfer first."
    /\ \E id \in ExistingIds :
          accounts[id].balance # 0 /\ TxOf(transactions, id) # <<>>

\* C9: Transfer(A, B, amt) followed at once by Transfer(B, A, amt), for distinct
\* existing accounts, amt > 0 and A holding at least amt: both succeed and both
\* balances are what they were before the first transfer.
C9_TransferRoundTrip ==
    \A a \in ExistingIds, b \in ExistingIds, amt \in Amounts, note \in Notes :
        (a # b /\ amt > 0 /\ accounts[a].balance >= amt)
           => LET there == transfer(get_account(View, a), get_account(View, b),
                                    a, b, amt, note)
                  db1 == After(View, there)
                  back == transfer(get_account(db1, b), get_account(db1, a),
                                   b, a, amt, note)
                  db2 == After(db1, back)
              IN  /\ there.err = ""
                  /\ back.err = ""
                  /\ db2.accounts[a].balance = accounts[a].balance
                  /\ db2.accounts[b].balance = accounts[b].balance

ValueErrors ==
    {"Account name cannot be empty.", "Initial balance cannot be negative.",
     "Account not found.",
     "Cannot delete account with non-zero balance. Please withdraw/transfer first.",
     "Deposit amount must be positive.", "Withdrawal amount must be positive.",
     "Insufficient balance.", "Cannot transfer to the same account.",
     "Transfer amount must be positive.", "Source or destination account not found.",
     "Insufficient balance in source account."}

\* C10: a call that raises one of the handlers' ValueErrors leaves the set of
\* accounts, every balance, every record, the id counters and the committed
\* database unchanged.
C10_ValidationPrecedesMutation ==
    [][result'.err \in ValueErrors => LedgerUnchanged]_vars

\* A create_account was refused for a negative initial balance in a ledger that
\* already holds an account and a record.
C10_Witness ==
    /\ result.op = "create_account"
    /\ result.err = "Initial balance cannot be negative."
    /\ ExistingIds # {}
    /\ transactions # <<>>

\* C4: when a statement of transfer fails, the balances and the logs are what
\* they were before the call, and nothing the call wrote is left in the
\* connection's open transaction for a later commit to persist.
C4_FailedTransferLeavesNothing ==
    [][(result'.op = "transfer" /\ result'.err = StorageError)
          => /\ accounts' = accounts
             /\ transactions' = transactions
             /\ accounts' = committed'.accounts
             /\ transactions' = committed'.transactions]_vars

\* After a transfer failed midway, a later call has committed its debit: the
\* database file holds a TransferOut-less, TransferIn-less change of balance.
C4_PartialTransferCommitted ==
    /\ result.err = ""
    /\ result.op # "__init__"
    /\ \E id \in DOMAIN committed.accounts :
          /\ TxOf(committed.transactions, id) # <<>>
          /\ TxOf(committed.transactions, id)[1].note = {InitialDepositNote}
          /\ committed.accounts[id].balance # Replay(0, TxOf(committed.transactions, id))

\* ---------------------------------------------------- two programs (SpecConc)
AllDone == \A p \in Procs : pc[p] = "done"

\* d is the transfer opposite to c: the same amount, B to A.
Opposite(c, d) ==
    /\ c.op = "transfer" /\ d.op = "transfer"
    /\ c.account_id # c.to_id
    /\ d.account_id = c.to_id /\ d.to_id = c.account_id
    /\ d.amount = c.amount /\ c.amount > 0

NewRecords == SubSeq(transactions, Len(db0.transactions) + 1, Len(transactions))

\* C5: when Transfer(A,B,amt) and Transfer(B,A,amt) of two programs have both
\* finished, on accounts that each held at least amt, both succeeded, both
\* balances are what they were at the start, and exactly four records are new:
\* one TransferOut and one TransferIn per transfer.
C5_OppositeTransfersCancel ==
    \A p \in Procs, q \in Procs :
        (/\ p # q /\ AllDone
         /\ Opposite(local[p], local[q])
         /\ \A id \in {local[p].account_id, local[p].to_id} :
               Balance(get_account(db0, id)) >= local[p].amount)
        => /\ local[p].err = "" /\ local[q].err = ""
           /\ \A id \in {local[p].account_id, local[p].to_id} :
                 Balance(get_account(View, id)) = Balance(get_account(db0, id))
           /\ Len(NewRecords) = 4
           /\ \A c \in {local[p], local[q]} :
                 /\ Cardinality({i \in DOMAIN NewRecords :
                        /\ NewRecords[i].type = "TRANSFER_OUT"
                        /\ NewRecords[i].account_id = c.account_id}) = 1
                 /\ Cardinality({i \in DOMAIN NewRecords :
                        /\ NewRecords[i].type = "TRANSFER_IN"
                        /\ NewRecords[i].account_id = c.to_id}) = 1

\* A lost update in exact arithmetic: both accounts started with 1, both
\* opposite transfers of 1 succeeded and wrote their four records, and one
\* account ends with 2, the other with 0.
C5_LostUpdate ==
    /\ AllDone
    /\ Opposite(local["p"], local["q"])
    /\ local["p"].amount = 1
    /\ local["p"].err = "" /\ local["q"].err = ""
    /\ \A id \in Ids : Balance(get_account(db0, id)) = 1
    /\ Len(NewRecords) = 4
    /\ {Balance(get_account(View, id)) : id \in Ids} = {0, 2}

\* The handler of call c run alone on db: its reads, its checks, its writes.
RunAlone(db, c) ==
    LET plan == IF ArgsError(c) # ""
                THEN Reject(ArgsError(c))
                ELSE PlanOf([c EXCEPT !.acc_from = get_account(db, c.account_id),
                                      !.acc_to = IF c.op = "transfer"
                                                 THEN get_account(db, c.to_id)
                                                 ELSE {}])
    IN  [db |-> After(db, plan), err |-> plan.err, ret |-> plan.ret]

\* The two calls ended as c-then-d run one after the other on db0 ends.
EndsAsSerial(c, d) ==
    LET first == RunAlone(db0, c)
        second == RunAlone(first.db, d)
    IN  /\ View = second.db
        /\ c.err = first.err /\ c.ret = first.ret
        /\ d.err = second.err /\ d.ret = second.ret

Touched(c) == IF c.op = "transfer" THEN {c.account_id, c.to_id} ELSE {c.account_id}

\* C6: when two calls that touch a common account have both finished, the
\* ledger and what the calls returned are what running the two calls one after
\* the other, in one of the two orders, gives.
C6_EndsAsSomeSerialOrder ==
    (/\ AllDone
     /\ Touched(local["p"]) \cap Touched(local["q"]) # {})
    => \/ EndsAsSerial(local["p"], local["q"])
       \/ EndsAsSerial(local["q"], local["p"])

\* Two deposits of 1 into an account that started with 1 have both succeeded
\* and the balance is 2: one deposit is in the log and not in the balance.
C6_LostDeposit ==
    /\ AllDone
    /\ \A p \in Procs : /\ local[p].op = "deposit" /\ local[p].account_id = 1
                        /\ local[p].amount = 1 /\ local[p].err = ""
    /\ Balance(get_account(db0, 1)) = 1
    /\ Balance(get_account(View, 1)) = 2
    /\ Len(NewRecords) = 2

\* ------------------------------------------------------ effects of the calls
\* The records a call appended to the log.
Appended(out) == SubSeq(out.view.transactions, Len(transactions) + 1,
                        Len(out.view.transactions))

\* The log as it was is still the head of the log.
LogKept(out) ==
    /\ Len(out.view.transactions) >= Len(transactions)
    /\ SubSeq(out.view.transactions, 1, Len(transactions)) = transactions

\* Every account but those in ids is as it was, and no account came or went.
OthersKept(out, ids) ==
    /\ DOMAIN out.view.accounts = DOMAIN accounts
    /\ \A i \in DOMAIN accounts \ ids : out.view.accounts[i] = accounts[i]

\* The money in the ledger, exactly.
RECURSIVE SumBalances(_, _)
SumBalances(accs, ids) ==
    IF ids = {} THEN 0
    ELSE LET i == CHOOSE i \in ids : TRUE
         IN  accs[i].balance + SumBalances(accs, ids \ {i})

TotalMoney(accs) == SumBalances(accs, DOMAIN accs)

\* C11: in every reachable state a Transfer between distinct existing accounts
\* of a positive amount the source can pay succeeds, returns and stores
\* (source balance - amount, destination balance + amount), appends exactly a
\* TransferOut record on the source pointing at the destination and a
\* TransferIn record on the destination pointing at the source, both of that
\* amount and with the same note, changes no other account and no other
\* record, and leaves the sum of all balances as it was.  The two new balances
\* are the difference and the sum as the balances' arithmetic computes them;
\* the sum of all balances is the money in the ledger, exactly.
C11_TransferEffects ==
    \A from_id \in ExistingIds, to_id \in ExistingIds, amount \in Amounts, note \in Notes :
        (from_id # to_id /\ amount > 0 /\ accounts[from_id].balance >= amount)
           => LET out == Outcome("transfer", TransferPlan(from_id, to_id, amount, note))
                  new == Appended(out)
              IN  /\ out.result.err = ""
                  /\ out.result.ret = <<FloatSub(accounts[from_id].balance, amount),
                                        FloatAdd(accounts[to_id].balance, amount)>>
                  /\ out.view.accounts[from_id].balance = out.result.ret[1]
                  /\ out.view.accounts[to_id].balance = out.result.ret[2]
                  /\ out.committed = out.view
                  /\ LogKept(out)
                  /\ OthersKept(out, {from_id, to_id})
                  /\ Len(new) = 2
                  /\ \E i \in 1..2, j \in 1..2 :
                        /\ new[i].type = "TRANSFER_OUT" /\ new[i].account_id = from_id
                        /\ new[i].related_account_id = {to_id}
                        /\ new[j].type = "TRANSFER_IN" /\ new[j].account_id = to_id
                        /\ new[j].related_account_id = {from_id}
                        /\ new[i].amount = amount /\ new[j].amount = amount
                        /\ new[i].note = StoredNote(note) /\ new[j].note = StoredNote(note)
                  /\ TotalMoney(out.view.accounts) = TotalMoney(accounts)

\* A transfer has just succeeded and the ledger holds less money than the two
\* balances it fetched: the credit was rounded away.
C11_MoneyLost ==
    /\ result.op = "transfer"
    /\ result.err = ""
    /\ TotalMoney(accounts) < result.acc[1] + result.acc[2]
    /\ Cardinality(ExistingIds) = 2

CreatePlan(name, initial_balance) == create_account(View, name, initial_balance)

\* The account rows of accs that are not in old.
NewAccounts(accs, old) == DOMAIN accs \ DOMAIN old

IsInitialDeposit(t, id, initial_balance) ==
    /\ t.account_id = id /\ t.type = "DEPOSIT" /\ t.amount = initial_balance
    /\ t.note = {InitialDepositNote} /\ t.related_account_id = {}

\* What CreateAccount does in the current state, for every name and amount.
CreateAccountEffects ==
    \A name \in Names, initial_balance \in Amounts :
        LET out == Outcome("create_account", CreatePlan(name, initial_balance))
            ids == NewAccounts(out.view.accounts, accounts)
            new == Appended(out)
        IN  IF NameIsEmpty(name) \/ initial_balance < 0
            THEN /\ out.result.err \in {"Account name cannot be empty.",
                                        "Initial balance cannot be negative."}
                 /\ NoEffect(out)
            ELSE /\ out.result.err = ""
                 /\ Cardinality(ids) = 1
                 /\ out.result.ret = <<CHOOSE id \in ids : TRUE>>
                 /\ \A id \in ids :
                       /\ out.view.accounts[id].balance = initial_balance
                       /\ out.view.accounts[id].name = Strip(name)
                       /\ IF initial_balance > 0
                          THEN Len(new) = 1 /\ IsInitialDeposit(new[1], id, initial_balance)
                          ELSE new = <<>>
                 /\ \A id \in DOMAIN accounts : out.view.accounts[id] = accounts[id]
                 /\ LogKept(out)
                 /\ out.committed = out.view

\* C12: CreateAccount raises and changes nothing when the trimmed name is
\* empty or the initial balance is negative; otherwise it adds one account
\* with the trimmed name and that balance, and with it one "Initial deposit"
\* Deposit record of that amount when the balance is positive and no record
\* when it is 0, both committed together.  And whenever an account row with a
\* positive balance enters the committed database, its Initial deposit record
\* is committed with it.
C12_CreateAccountIsOneUnit ==
    [][ /\ CreateAccountEffects
        /\ \A id \in NewAccounts(committed'.accounts, committed.accounts) :
             committed'.accounts[id].balance > 0
                => \E i \in DOMAIN committed'.transactions :
                      IsInitialDeposit(committed'.transactions[i], id,
                                       committed'.accounts[id].balance) ]_vars

\* The database file holds an account with a positive balance and no record:
\* its INSERT was committed by a later call, its Initial deposit never was.
C12_AccountWithoutInitialDeposit ==
    /\ result.err = ""
    /\ \E id \in DOMAIN committed.accounts :
          /\ committed.accounts[id].balance > 0
          /\ TxOf(committed.transactions, id) = <<>>
          /\ \A other \in DOMAIN committed.accounts \ {id} :
                committed.accounts[other].balance
                   = Replay(0, TxOf(committed.transactions, other))

DepositPlan(account_id, amount, note) ==
    deposit(get_account(View, account_id), account_id, amount, note)

NotFoundErrors == {"Account not found.", "Source or destination account not found."}

\* Every call that names the absent account id, with arguments that are
\* otherwise valid, is refused as not found; get_account gives None.
AbsentEverywhere(db, id) ==
    /\ get_account(db, id) = {}
    /\ delete_account(get_account(db, id), id).err \in NotFoundErrors
    /\ \A amount \in Amounts, note \in Notes :
          amount > 0
             => /\ deposit(get_account(db, id), id, amount, note).err \in NotFoundErrors
                /\ withdraw(get_account(db, id), id, amount, note).err \in NotFoundErrors
                /\ \A other \in Ids \ {id} :
                      /\ transfer(get_account(db, id), get_account(db, other),
                                  id, other, amount, note).err \in NotFoundErrors
                      /\ transfer(get_account(db, other), get_account(db, id),
                                  other, id, amount, note).err \in NotFoundErrors

\* C14: in every reachable state a DeleteAccount that succeeds removes, in one
\* committed step, the account and exactly the records whose account_id it is;
\* every other account and every other record, those whose related_account_id
\* is the deleted id included, stay as they were and in their order; and after
\* it get_account, Deposit, Withdraw and Transfer naming the id find no account.
C14_DeleteEffects ==
    \A id \in Ids :
        LET out == Outcome("delete_account", DeletePlan(id))
        IN  out.result.err = ""
               => /\ id \in ExistingIds
                  /\ DOMAIN out.view.accounts = ExistingIds \ {id}
                  /\ \A other \in ExistingIds \ {id} :
                        out.view.accounts[other] = accounts[other]
                  /\ out.view.transactions
                        = SelectSeq(transactions, LAMBDA t : t.account_id # id)
                  /\ out.committed = out.view
                  /\ AbsentEverywhere(out.view, id)

\* An account was just deleted, and a record of the other account that names
\* it as counterparty is still in the log.
C14_Witness ==
    /\ result.op = "delete_account"
    /\ result.err = ""
    /\ ExistingIds # {}
    /\ \E i \in DOMAIN transactions :
          /\ transactions[i].related_account_id # {}
          /\ ~(transactions[i].related_account_id \subseteq ExistingIds)

\* C15: in every step, every record of the log is in the log afterwards with
\* every field as it was, unless the step is a successful DeleteAccount of the
\* account the record belongs to.
C15_RecordsAreAppendOnly ==
    [][\A i \in DOMAIN transactions :
          \/ \E j \in DOMAIN transactions' : transactions'[j] = transactions[i]
          \/ /\ result'.op = "delete_account" /\ result'.err = ""
             /\ transactions[i].account_id \in DOMAIN accounts
             /\ transactions[i].account_id \notin DOMAIN accounts']_vars

\* An account was just deleted and the log still holds the records of another.
C15_Witness ==
    /\ result.op = "delete_account"
    /\ result.err = ""
    /\ Len(transactions) >= 2
    /\ \A i \in DOMAIN transactions : transactions[i].account_id \in ExistingIds

TxTypes == {"DEPOSIT", "WITHDRAW", "TRANSFER_OUT", "TRANSFER_IN"}

TransferTypes == {"TRANSFER_OUT", "TRANSFER_IN"}

\* C16: every stored record has a positive amount and one of the four kinds,
\* and names a related account exactly when it is a leg of a transfer.
C16_RecordsWellFormed ==
    \A i \in DOMAIN transactions :
        /\ transactions[i].amount > 0
        /\ transactions[i].type \in TxTypes
        /\ (transactions[i].related_account_id # {}) <=> (transactions[i].type \in TransferTypes)

\* The log holds a record of each of the four kinds.
C16_Witness == {transactions[i].type : i \in DOMAIN transactions} = TxTypes

\* ------------------------------------------------------- list_transactions
ListPlan(account_id, limit) == list_transactions(View, account_id, limit)

\* C17: in every reachable state ListTransactions with limit <= 0 fails.
C17_NonPositiveLimitFails ==
    \A id \in Ids, limit \in Limits :
        limit <= 0 => ListPlan(id, limit).err # ""

\* An account has several records; list_transactions with limit 0 returns no
\* row and no error, and with limit -1 it returns every record, uncapped.
C17_UncappedList ==
    \E id \in ExistingIds :
        /\ Len(TxOf(transactions, id)) >= 3
        /\ ListPlan(id, 0).err = "" /\ ListPlan(id, 0).ret = <<>>
        /\ ListPlan(id, -1).err = ""
        /\ Len(ListPlan(id, -1).ret) = Len(TxOf(transactions, id))

Min(a, b) == IF a <= b THEN a ELSE b

\* C18: the ids of the log strictly increase in creation order and none is
\* above the AUTOINCREMENT counter; and for limit > 0 ListTransactions returns
\* without error only records of the account, min(limit, n) of them, in
\* strictly descending id order, and every record of the account it leaves
\* out is older than every record it returns.
C18_ListIsNewestFirst ==
    /\ \A i \in DOMAIN transactions :
          /\ transactions[i].id <= sqlite_sequence.transactions
          /\ \A j \in DOMAIN transactions : i < j => transactions[i].id < transactions[j].id
    /\ \A id \in Ids, limit \in Limits :
          limit > 0
             => LET rows == ListPlan(id, limit).ret
                    mine == TxOf(transactions, id)
                IN  /\ ListPlan(id, limit).err = ""
                    /\ \A k \in DOMAIN rows : rows[k].account_id = id
                    /\ \A k \in DOMAIN rows : \E i \in DOMAIN mine : mine[i] = rows[k]
                    /\ Len(rows) = Min(limit, Len(mine))
                    /\ \A k \in DOMAIN rows : \A l \in DOMAIN rows :
                          k < l => rows[k].id > rows[l].id
                    /\ \A i \in DOMAIN mine :
                          (\A k \in DOMAIN rows : rows[k] # mine[i])
                             => \A k \in DOMAIN rows : mine[i].id < rows[k].id

\* An account has more records than a limit asks for: the list is cut.
C18_Witness ==
    \E id \in ExistingIds, limit \in Limits :
        /\ limit > 0
        /\ Len(TxOf(transactions, id)) > limit
        /\ Len(ListPlan(id, limit).ret) = limit
        /\ \E other \in ExistingIds : other # id /\ TxOf(transactions, other) # <<>>

\* C19: the TransferOut record and the TransferIn record of one Transfer carry
\* the same timestamp.
C19_LegsShareTimestamp ==
    \A i \in TransferOuts(transactions) :
        \A j \in MatchingIn(transactions, transactions[i]) :
            transactions[j].timestamp = transactions[i].timestamp

\* The two legs of a committed transfer are stamped with different seconds.
C19_LegsStampedApart ==
    \E i \in TransferOuts(committed.transactions) :
        \E j \in MatchingIn(committed.transactions, committed.transactions[i]) :
            committed.transactions[j].timestamp > committed.transactions[i].timestamp

\* ---------------------------------------------------------------- scenario
\* The records of account id of the given kind.
OfKind(id, kind) ==
    SelectSeq(TxOf(transactions, id), LAMBDA t : t.type = kind)

\* The session so far is the first n calls of the scenario, in its order.
Played(n) == scenario.done = [i \in 1..n |-> i]

\* C20: on an empty ledger, CreateAccount("Alice", 100); Deposit(Alice, 50,
\* "salary") gives 150 and one Deposit record of 50; Withdraw(Alice, 30) gives
\* 120; CreateAccount("Bob", 0); Transfer(Alice, Bob, 100) gives Alice 20 and
\* Bob 100, Alice one TransferOut of 100 to Bob and Bob one TransferIn of 100
\* from Alice; DeleteAccount(Alice) is then refused for the non-zero balance
\* and Alice is still there with 20.
C20_Scenario ==
    LET a == scenario.alice
        b == scenario.bob
    IN  /\ Played(1) => (result.err = "" /\ a \in ExistingIds /\ accounts[a].balance = 100)
        /\ Played(2) =>
              /\ result.err = "" /\ result.ret = <<150>>
              /\ accounts[a].balance = 150
              /\ Len(SelectSeq(OfKind(a, "DEPOSIT"), LAMBDA t : t.amount = 50)) = 1
        /\ Played(3) =>
              /\ result.err = "" /\ result.ret = <<120>>
              /\ accounts[a].balance = 120
        /\ Played(4) =>
              /\ result.err = "" /\ b \in ExistingIds /\ b # a
              /\ accounts[b].balance = 0 /\ accounts[a].balance = 120
        /\ Played(5) =>
              /\ result.err = "" /\ result.ret = <<20, 100>>
              /\ accounts[a].balance = 20 /\ accounts[b].balance = 100
              /\ Len(OfKind(a, "TRANSFER_OUT")) = 1
              /\ OfKind(a, "TRANSFER_OUT")[1].amount = 100
              /\ OfKind(a, "TRANSFER_OUT")[1].related_account_id = {b}
              /\ Len(OfKind(b, "TRANSFER_IN")) = 1
              /\ OfKind(b, "TRANSFER_IN")[1].amount = 100
              /\ OfKind(b, "TRANSFER_IN")[1].related_account_id = {a}
        /\ Played(6) =>
              /\ result.err = "Cannot delete account with non-zero balance. Please withdraw/transfer first."
              /\ a \in ExistingIds /\ accounts[a].balance = 20
              /\ a \in DOMAIN committed.accounts /\ committed.accounts[a].balance = 20

\* The whole scenario was played and its last call, the delete, was made.
C20_Witness ==
    /\ Played(6)
    /\ result.op = "delete_account"
    /\ Cardinality(ExistingIds) = 2
    /\ Len(transactions) = 5

\* ------------------------------------------------------- balance and log
\* C21: under sequential, failure-free execution every existing account's
\* balance is the sum of the amounts of its own Deposit and TransferIn records
\* minus the sum of the amounts of its own Withdraw and TransferOut records,
\* the "Initial deposit" record of CreateAccount counted as a Deposit.
C21_BalanceIsLogSum ==
    \A id \in ExistingIds : accounts[id].balance = LogSum(transactions, id)

\* An account whose records are all there, applied one after the other as the
\* handlers did, and whose balance still is not what they add up to.
C21_BalanceOffTheLog ==
    \E id \in ExistingIds :
        /\ TxOf(transactions, id) # <<>>
        /\ TxOf(transactions, id)[1].note = {InitialDepositNote}
        /\ accounts[id].balance = Replay(0, TxOf(transactions, id))
        /\ accounts[id].balance # LogSum(transactions, id)
        /\ committed = View

\* ------------------------------------------------------------ account ids
\* The accounts the records of the log point at.
RelatedIds(txs) ==
    UNION {txs[i].related_account_id : i \in DOMAIN txs}

\* C22: account ids are never reused.  In every state, a CreateAccount that
\* succeeds returns an id strictly greater than every id CreateAccount has
\* returned so far, the ids of deleted accounts included; every existing
\* account and every relatedAccountId of a surviving record carries such an
\* earlier id, so the new account takes the place of none of them: the
\* accounts there were stay as they are and no surviving record names the new
\* account.
C22_IdsNeverReused ==
    /\ ExistingIds \subseteq issued
    /\ RelatedIds(transactions) \subseteq issued
    /\ \A name \in Names, initial_balance \in Amounts :
          LET out == Outcome("create_account", CreatePlan(name, initial_balance))
              id == out.result.ret[1]
          IN  out.result.err = ""
                => /\ \A earlier \in issued : id > earlier
                   /\ NewAccounts(out.view.accounts, accounts) = {id}
                   /\ \A e \in ExistingIds : out.view.accounts[e] = accounts[e]
                   /\ id \notin RelatedIds(transactions)
                   /\ \A i \in DOMAIN transactions : transactions[i].account_id # id

\* An account was opened after another was deleted whose id a surviving record
\* still carries as its relatedAccountId.
C22_Witness ==
    /\ result.op = "create_account"
    /\ result.err = ""
    /\ result.ret[1] \in ExistingIds
    /\ \E gone \in issued \ ExistingIds :
          /\ gone < result.ret[1]
          /\ gone \in RelatedIds(transactions)

====
